---------------------------- MODULE Spec2Model ----------------------------
(***************************************************************************)
(* Model of astra-visualizer: the telemetry poller of src/dashboard.py     *)
(* (SystemProfiler: background poll loop, bounded history deques, locked   *)
(* accessors) and the command transports of src/remote.py.                 *)
(*                                                                         *)
(* Floating-point values are modelled as exact rationals [n, d] in lowest  *)
(* terms with d > 0.  Text is modelled as sequences: an output is a        *)
(* sequence of lines, a line a sequence of whitespace-separated tokens.    *)
(***************************************************************************)
EXTENDS Integers, Sequences, FiniteSets, TLC

VARIABLES
    \* ---- SystemProfiler (src/dashboard.py) ----
    board_address,      \* the board_address argument of __init__
    device,             \* the board behind it: which answers it can give
    cmd_runner,         \* self.cmd_runner
    pc,                 \* position of the polling thread in poll_loop
    exc,                \* exception that left poll_loop / __init__, or "none"
    clock,              \* wall clock read by time.time()
    ticks,              \* number of loop iterations started
    curr_stats,         \* poll_loop local: parsed sample
    curr_ts,            \* poll_loop local: timestamp of the sample
    usage,              \* poll_loop locals cpu_usage, npu_usage, mem_used, mem_used_percent
    previous_stats,     \* self.previous_stats
    total_mem_gb,       \* self._total_mem_gb
    cpu_time_points,    \* self.cpu_time_points
    cpu_usage_history,  \* self.cpu_usage_history
    npu_usage_history,  \* self.npu_usage_history
    mem_used_history,   \* self.mem_used_history
    lock,               \* self.lock: "free" or the holder
    rpc,                \* position of the reader thread inside an accessor
    racc,               \* accessor the reader is calling
    snap,               \* what the last accessor call returned to the reader
    appended,           \* history: timestamps appended in all, values appended this tick
    raw_stats,          \* poll_loop local: the output of run_cmd
    calls,              \* history: MemTotal queries, threads started, commands
                        \* executed on the device by the current tick
    seen,               \* history: what the reader's previous call returned
    \* ---- ADBCommandRunner.run_cmd (src/remote.py) ----
    adb,                \* one call of run_cmd: its argument, locals and outcome
    \* ---- SSHCommandRunner (src/remote.py) ----
    ssh                 \* one runner: its master connection and its last call

ctorVars == <<board_address, device, cmd_runner, total_mem_gb>>
pollerVars == <<pc, exc, clock, ticks, curr_stats, curr_ts, usage,
                previous_stats, ctorVars, raw_stats, calls>>
bufferVars == <<cpu_time_points, cpu_usage_history, npu_usage_history,
                mem_used_history>>
readerVars == <<rpc, racc, snap, seen>>

vars == <<pollerVars, bufferVars, lock, readerVars, appended, adb, ssh>>

---------------------------------------------------------------------------
(* Bounds of the model *)

\* history_length N, the maxlen of every deque
HistoryLength == 2
\* the poll loop is followed until an entry has been evicted
MaxTicks == HistoryLength + 2

---------------------------------------------------------------------------
(* Rationals standing for Python floats *)

RECURSIVE Gcd(_, _)
Gcd(a, b) == IF b = 0 THEN a ELSE Gcd(b, a % b)

Abs(x) == IF x < 0 THEN -x ELSE x

\* n / d for d # 0, in lowest terms with a positive denominator
Rat(n, d) ==
    LET g == Gcd(Abs(n), Abs(d))
        s == IF d < 0 THEN -1 ELSE 1
    IN  [n |-> (s * n) \div g, d |-> (s * d) \div g]

RatLess(a, b) == a.n * b.d < b.n * a.d
RatLeq(a, b) == a.n * b.d <= b.n * a.d

RatSub(a, b) == Rat(a.n * b.d - b.n * a.d, a.d * b.d)
RatMul(a, b) == Rat(a.n * b.n, a.d * b.d)
\* a / b for b # 0
RatDiv(a, b) == Rat(a.n * b.d, a.d * b.n)

Zero == Rat(0, 1)
Hundred == Rat(100, 1)

---------------------------------------------------------------------------
(* Python dicts: insertion-ordered sequences of [k, v] entries *)

DictKeys(d) == {d[i].k : i \in 1..Len(d)}

DictGet(d, key) == d[CHOOSE i \in 1..Len(d) : d[i].k = key].v

\* d[key] = val: an existing key keeps its position, a new key goes last
DictPut(d, key, val) ==
    IF key \in DictKeys(d)
    THEN [i \in 1..Len(d) |-> IF d[i].k = key THEN [k |-> key, v |-> val] ELSE d[i]]
    ELSE Append(d, [k |-> key, v |-> val])

---------------------------------------------------------------------------
(* Text: tokens, lines, outputs *)

\* a whitespace-free token; num says whether int() accepts it, v is its value
Word(s) == [s |-> s, num |-> FALSE, v |-> 0]
Num(n) == [s |-> ToString(n), num |-> TRUE, v |-> n]

\* one line of /proc/stat: a label followed by the counters
StatLine(label, counters) ==
    <<Word(label)>> \o [i \in 1..Len(counters) |-> Num(counters[i])]

BlankLine == <<>>

---------------------------------------------------------------------------
(* SystemProfiler.parse_stats *)

KB_PER_GB == 1048576
MIN_LINES == 7
CPU_LINES == 5

\* mutant: blank lines are kept
AllLines(raw) == raw

\* raw.splitlines() filtered by line.strip()
NonBlank(raw) == SelectSeq(raw, LAMBDA line : Len(line) > 0)

\* list(map(int, parts[1:])) succeeds
IntFields(line) == \A i \in 2..Len(line) : line[i].num

\* int(line.strip()) succeeds: the whole line is one integer
IntLine(line) == Len(line) = 1 /\ line[1].num

\* the dict comprehension over the CPU lines: a repeated label keeps its first
\* position and takes the last line's counters
RECURSIVE CpuDict(_, _)
CpuDict(lines, n) ==
    IF n = 0 THEN <<>>
    ELSE DictPut(CpuDict(lines, n - 1), lines[n][1].s,
                 [i \in 1..(Len(lines[n]) - 1) |-> lines[n][i + 1].v])

NoStats == [cpu |-> <<>>, mem |-> Zero, npu |-> 0]

\* an exception: its type and, for raise ... from e, the type of e
Raised(type, cause) == [type |-> type, cause |-> cause]
NoExc == Raised("none", "none")

ParseFail(e) == [ok |-> FALSE, exc |-> Raised(e, "none"), stats |-> NoStats]

parse_stats(raw) ==
    LET raw_data == NonBlank(raw)
    IN  IF Len(raw_data) < MIN_LINES THEN ParseFail("AssertionError")
        ELSE IF \E n \in 1..CPU_LINES : ~IntFields(raw_data[n])
             THEN ParseFail("ValueError")
        ELSE IF ~IntLine(raw_data[CPU_LINES + 1]) \/ ~IntLine(raw_data[CPU_LINES + 2])
             THEN ParseFail("ValueError")
        ELSE [ok |-> TRUE, exc |-> NoExc,
              stats |-> [cpu |-> CpuDict(raw_data, CPU_LINES),
                         mem |-> Rat(raw_data[CPU_LINES + 1][1].v, KB_PER_GB),
                         npu |-> raw_data[CPU_LINES + 2][1].v]]

---------------------------------------------------------------------------
(* SystemProfiler.compute_cpu_usage *)

\* sum(c2 - c1 for c1, c2 in zip(prev, curr)): zip stops at the shorter list
RECURSIVE SumDeltas(_, _, _)
SumDeltas(prev, curr, n) ==
    IF n = 0 THEN 0 ELSE SumDeltas(prev, curr, n - 1) + (curr[n] - prev[n])

Min(a, b) == IF a < b THEN a ELSE b

TotalDelta(prev, curr) == SumDeltas(prev, curr, Min(Len(prev), Len(curr)))

\* (curr[3] + curr[4]) - (prev[3] + prev[4]), Python's 0-based fields 3 and 4
IdleDelta(prev, curr) == (curr[4] + curr[5]) - (prev[4] + prev[5])

\* mutant: the guard tests total != 0
CpuPercentNonZero(prev, curr) ==
    LET total == TotalDelta(prev, curr)
        idle == IdleDelta(prev, curr)
    IN  IF total # 0 THEN Rat(100 * (total - idle), total) ELSE Zero

\* 100.0 * (1 - idle / total) if total > 0 else 0.0
CpuPercent(prev, curr) ==
    LET total == TotalDelta(prev, curr)
        idle == IdleDelta(prev, curr)
    IN  IF total > 0 THEN Rat(100 * (total - idle), total) ELSE Zero

\* what the loop body does for the i-th label of prev_cpu
LabelStep(prev_cpu, curr_cpu, i) ==
    LET proc == prev_cpu[i].k
    IN  IF proc \notin DictKeys(curr_cpu) THEN "KeyError"
        ELSE IF Len(DictGet(curr_cpu, proc)) < 5 \/ Len(prev_cpu[i].v) < 5
             THEN "IndexError"
        ELSE "ok"

compute_cpu_usage(prev_cpu, curr_cpu) ==
    LET bad == {i \in 1..Len(prev_cpu) : LabelStep(prev_cpu, curr_cpu, i) # "ok"}
    IN  IF bad # {}
        THEN [ok |-> FALSE,
              exc |-> Raised(LabelStep(prev_cpu, curr_cpu,
                                       CHOOSE i \in bad : \A j \in bad : i <= j),
                             "none"),
              usage |-> <<>>]
        ELSE [ok |-> TRUE, exc |-> NoExc,
              usage |-> [i \in 1..Len(prev_cpu) |->
                            [k |-> prev_cpu[i].k,
                             v |-> CpuPercent(prev_cpu[i].v,
                                              DictGet(curr_cpu, prev_cpu[i].k))]]]

---------------------------------------------------------------------------
(* ADBCommandRunner.run_cmd: the text operations.  A command is a sequence  *)
(* of characters; a word that holds no operator and no blank may stand as   *)
(* one element.                                                             *)

\* one character: GRAVE ACCENT
Backquote == "U+0060"

\* line 44: the operators the runner refuses
UNSUPPORTED_OPS ==
    {<<"|">>, <<";">>, <<"|", "|">>, <<Backquote>>, <<"$", "(">>, <<"<">>, <<">">>}

\* op in cmd
Contains(op, cmd) ==
    \E i \in 1..(Len(cmd) - Len(op) + 1) : SubSeq(cmd, i, i + Len(op) - 1) = op

\* cmd.split("&&")
RECURSIVE SplitAnd(_)
SplitAnd(cmd) ==
    LET At(i) == cmd[i] = "&" /\ cmd[i + 1] = "&"
    IN  IF \A i \in 1..(Len(cmd) - 1) : ~At(i)
        THEN <<cmd>>
        ELSE LET d == CHOOSE i \in 1..(Len(cmd) - 1) :
                          At(i) /\ \A j \in 1..(i - 1) : ~At(j)
             IN  <<SubSeq(cmd, 1, d - 1)>> \o SplitAnd(SubSeq(cmd, d + 2, Len(cmd)))

\* part.strip()
RECURSIVE Strip(_)
Strip(part) ==
    IF part = <<>> THEN part
    ELSE IF Head(part) = " " THEN Strip(Tail(part))
    ELSE IF part[Len(part)] = " " THEN Strip(SubSeq(part, 1, Len(part) - 1))
    ELSE part

\* shlex.split(part) of a stripped part without quotes: its words
RECURSIVE ShlexSplit(_)
ShlexSplit(part) ==
    IF part = <<>> THEN <<>>
    ELSE IF Head(part) = " " THEN ShlexSplit(Tail(part))
    ELSE IF \A i \in 1..Len(part) : part[i] # " " THEN <<part>>
    ELSE LET d == CHOOSE i \in 1..Len(part) :
                      part[i] = " " /\ \A j \in 1..(i - 1) : part[j] # " "
         IN  <<SubSeq(part, 1, d - 1)>> \o ShlexSplit(SubSeq(part, d + 1, Len(part)))

\* "\n".join(results)
RECURSIVE JoinLines(_)
JoinLines(results) ==
    IF results = <<>> THEN <<>>
    ELSE IF Len(results) = 1 THEN results[1]
    ELSE results[1] \o <<"\n">> \o JoinLines(Tail(results))

\* mutant: only the first segment is tested
FirstPartUnsupported(cmd) ==
    \E op \in UNSUPPORTED_OPS : Contains(op, SplitAnd(cmd)[1])

\* line 44: any(op in cmd for op in [...])
HasUnsupportedSyntax(cmd) == \E op \in UNSUPPORTED_OPS : Contains(op, cmd)

---------------------------------------------------------------------------
(* The device: what run_cmd can return to the poll loop *)

\* labels of the first five lines of /proc/stat
LayoutFull == <<"cpu", "cpu0", "cpu1", "cpu2", "cpu3">>
\* a line repeated, so only four labels are present
LayoutRepeat == <<"cpu", "cpu0", "cpu1", "cpu2", "cpu2">>

Layouts == {LayoutFull, LayoutRepeat}

\* user, nice, system, idle, iowait
CountersA == <<2, 0, 1, 4, 1>>
CountersB == <<4, 0, 2, 6, 2>>

\* counters, MemAvailable in kB, inference_time in microseconds
Readings ==
    { [cpu |-> CountersA, avail |-> 1048576, npu |-> 0],
      [cpu |-> CountersB, avail |-> 2097152, npu |-> 1500000] }

\* MemTotal in kB
TotalMemChoices == {4194304}

\* the three parts of the batched command; joined is TRUE for the ssh
\* transport (one output), FALSE for the adb transport, whose per-segment
\* outputs each end in a newline and are joined by another
GoodOutput(layout, r, joined) ==
    LET sep == IF joined THEN <<>> ELSE <<BlankLine>>
    IN  [i \in 1..CPU_LINES |-> StatLine(layout[i], r.cpu)]
        \o sep \o <<<<Num(r.avail)>>>> \o sep \o <<<<Num(r.npu)>>>>

GoodOutputs(joined) == {GoodOutput(l, r, joined) : l \in Layouts, r \in Readings}

SampleOutput == GoodOutput(LayoutFull, CHOOSE r \in Readings : r.npu = 0, TRUE)

BadOutputs ==
    { <<>>,
      \* three non-blank lines
      SubSeq(SampleOutput, 1, 3),
      \* six non-blank lines and two blank ones
      SubSeq(SampleOutput, 1, 6) \o <<BlankLine, BlankLine>>,
      \* the awk filter printed the whole MemAvailable line
      SubSeq(SampleOutput, 1, 5)
          \o <<<<Word("MemAvailable:"), Num(1048576), Word("kB")>>, <<Num(0)>>>>,
      \* a counter field that is not an integer
      <<<<Word("cpu"), Num(1), Word("-")>>>> \o SubSeq(SampleOutput, 2, 7) }

DeviceOutputs(joined) == GoodOutputs(joined) \cup BadOutputs

\* dashboard.py line 63, the command of every tick
POLL_CMD ==
    <<"head", " ", "-n", " ", "5", " ", "/proc/stat", " ", "&", "&", " ",
      "awk", " ", "'/MemAvailable/ {print $2}'", " ", "/proc/meminfo", " ", "&", "&", " ",
      "cat", " ", "/sys/class/misc/synap/statistics/inference_time">>

\* run_cmd(cmd) of a runner of this kind returns text, raises
\* RemoteCommandError (rejected syntax, non-zero exit, timeout) or lets an
\* OSError of subprocess through; calls is the number of commands that were
\* executed on the device.  ADBCommandRunner runs one adb exec-out per &&
\* segment and stops at the first that fails; SSHCommandRunner passes the
\* words to one ssh, whose remote shell runs the whole line.
RunCmdOutcomes(kind, cmd, outputs) ==
    LET n == IF kind = "adb" THEN Len(SplitAnd(cmd)) ELSE 1
        failed(e, k) == [ok |-> FALSE, exc |-> e, out |-> <<>>, calls |-> k]
    IN  IF kind = "adb" /\ HasUnsupportedSyntax(cmd)
        THEN {failed("RemoteCommandError", 0)}
        ELSE {[ok |-> TRUE, exc |-> "none", out |-> o, calls |-> n] : o \in outputs}
             \cup {failed("RemoteCommandError", k) : k \in 1..n}
             \cup {failed("OSError", 0)}

\* the boards of the model: one that can answer anything, and one whose
\* /proc/stat always lists the same cores and whose clock runs forward
Devices == {"any", "steady"}

\* what the board prints for POLL_CMD; joined as in GoodOutput
PollOutputs(dev, joined) ==
    IF dev = "any" THEN DeviceOutputs(joined)
    ELSE {GoodOutput(LayoutFull, r, joined) : r \in Readings}
         \cup {SubSeq(SampleOutput, 1, 3)}

\* change of time.time() over one sleep; the wall clock may stand or step back
ClockSteps(dev) == IF dev = "any" THEN {-1, 0, 2} ELSE {2}

---------------------------------------------------------------------------
(* remote_command_runner_factory.  An address is a sequence of characters. *)

\* board_address: None or a string
NoAddress == [none |-> TRUE, text |-> <<>>]
Address(text) == [none |-> FALSE, text |-> text]

\* no runner was created
NoRunner == [kind |-> "none", target |-> <<>>]

Digits == {"0", "1", "2", "3", "4", "5", "6", "7", "8", "9"}

\* one character: ARABIC-INDIC DIGIT THREE, a decimal digit that is not ASCII
ArabicThree == "U+0663"

\* the characters \d matches in a str pattern: every Unicode decimal digit
DecimalDigits == Digits \cup {ArabicThree}

ADB_PREFIX == <<"S", "L", "1", "6", "x">>
DEFAULT_DEVICE == ADB_PREFIX \o <<"0">>

\* t matches the regular expression \d+
IsDigits(t) == Len(t) >= 1 /\ \A i \in 1..Len(t) : t[i] \in DecimalDigits

\* ADB_ID_PATTERN.fullmatch(s): ^SL16x\d+$
IsAdbDeviceId(s) ==
    /\ Len(s) > Len(ADB_PREFIX)
    /\ SubSeq(s, 1, Len(ADB_PREFIX)) = ADB_PREFIX
    /\ IsDigits(SubSeq(s, Len(ADB_PREFIX) + 1, Len(s)))

\* t matches 25[0-5]|2[0-4]\d|1\d{2}|[1-9]?\d
IsOctet(t) ==
    \/ Len(t) = 3 /\ t[1] = "2" /\ t[2] = "5" /\ t[3] \in {"0", "1", "2", "3", "4", "5"}
    \/ Len(t) = 3 /\ t[1] = "2" /\ t[2] \in {"0", "1", "2", "3", "4"} /\ t[3] \in DecimalDigits
    \/ Len(t) = 3 /\ t[1] = "1" /\ t[2] \in DecimalDigits /\ t[3] \in DecimalDigits
    \/ Len(t) = 2 /\ t[1] \in Digits \ {"0"} /\ t[2] \in DecimalDigits
    \/ Len(t) = 1 /\ t[1] \in DecimalDigits

\* the fields of s between its dots
RECURSIVE DotFields(_)
DotFields(s) ==
    IF \A i \in 1..Len(s) : s[i] # "."
    THEN <<s>>
    ELSE LET d == CHOOSE i \in 1..Len(s) : s[i] = "." /\ \A j \in 1..(i - 1) : s[j] # "."
         IN  <<SubSeq(s, 1, d - 1)>> \o DotFields(SubSeq(s, d + 1, Len(s)))

\* IPV4_PATTERN.fullmatch(s): three octets each followed by a dot, and an octet
IsIpv4Address(s) ==
    LET f == DotFields(s)
    IN  Len(f) = 4 /\ \A i \in 1..4 : IsOctet(f[i])

Runner(kind, target) == [ok |-> TRUE, exc |-> NoExc, runner |-> [kind |-> kind, target |-> target]]

\* lines 164-184
remote_command_runner_factory(address) ==
    IF address.none THEN Runner("adb", DEFAULT_DEVICE)
    ELSE IF IsAdbDeviceId(address.text) THEN Runner("adb", address.text)
    ELSE IF IsIpv4Address(address.text) THEN Runner("ssh", address.text)
    ELSE [ok |-> FALSE, exc |-> Raised("ValueError", "none"), runner |-> NoRunner]

---------------------------------------------------------------------------
(* SystemProfiler: state *)

EmptyStats == [filled |-> FALSE, cpu |-> <<>>, mem |-> Zero, npu |-> 0, ts |-> 0]

NoUsage == [cpu |-> <<>>, npu |-> Zero, mem_used |-> Zero, mem_used_percent |-> Zero]

\* a list object handed to a caller: its own elements (ref = "none"), or a
\* reference to one of the profiler's deques
ListCopy(elems) == [ref |-> "none", key |-> "", val |-> elems]
ListRef(buf, key) == [ref |-> buf, key |-> key, val |-> <<>>]

NoSnap == [acc |-> "none", times |-> ListCopy(<<>>), data |-> <<>>]

\* the clock when the program starts
StartTime == 100

NoCall == [pc |-> "none", cmd |-> <<>>, parts |-> <<>>, results |-> <<>>,
           invoked |-> <<>>, ret |-> <<>>, exc |-> NoExc]

\* a local variable of poll_loop before and after its first assignment
Unbound == [bound |-> FALSE, text |-> <<>>]
Bound(text) == [bound |-> TRUE, text |-> text]

NoCalls == [mem |-> 0, threads |-> 0, device |-> 0]

\* the reader has not called yet
NoneSeen == [track |-> FALSE, called |-> FALSE, times |-> <<>>, total |-> 0, at |-> "none"]

\* no call was made yet
NoLast == [op |-> "none", ok |-> TRUE, exc |-> NoExc, reachable |-> TRUE, via |-> "none"]

\* no SSHCommandRunner exists
NoSsh == [pc |-> "none", installed |-> TRUE, net |-> TRUE, master |-> "none",
          inits |-> 0, calls |-> 0, since_expiry |-> 0, direct |-> 0,
          exc |-> NoExc, last |-> NoLast]

NoAppends == [total |-> 0,
              tick |-> [times |-> 0, npu |-> 0, amount |-> 0, percent |-> 0, cpu |-> <<>>]]

\* the state SystemProfiler(board_address) starts from
Start(address) ==
    /\ board_address = address
    /\ cmd_runner = NoRunner
    /\ pc = "new"
    /\ exc = NoExc
    /\ clock = StartTime
    /\ ticks = 0
    /\ curr_stats = NoStats
    /\ curr_ts = 0
    /\ usage = NoUsage
    /\ previous_stats = EmptyStats
    /\ total_mem_gb = Zero
    /\ cpu_time_points = <<>>
    /\ cpu_usage_history = <<>>
    /\ npu_usage_history = <<>>
    /\ mem_used_history = [amount |-> <<>>, percent |-> <<>>]
    /\ lock = "free"
    /\ rpc = "idle"
    /\ racc = "none"
    /\ snap = NoSnap
    /\ appended = NoAppends
    /\ raw_stats = Unbound
    /\ calls = NoCalls

\* no call of a runner is modelled on its own
NoRunnerCall == adb = NoCall /\ ssh = NoSsh

Init == Start(NoAddress) /\ device = "any" /\ seen = NoneSeen /\ NoRunnerCall

---------------------------------------------------------------------------
(* SystemProfiler.__init__ *)

\* the MemTotal query of __init__: an integer, or a failure of run_cmd / int()
MemTotalOutcomes ==
    {[ok |-> TRUE, exc |-> NoExc, kb |-> t] : t \in TotalMemChoices}
    \cup {[ok |-> FALSE, exc |-> Raised(e, "none"), kb |-> 0] :
            e \in {"RemoteCommandError", "ValueError"}}

\* mutant: the thread is started although line 26 raised
StartedAnyway == "run"

\* line 26 raised: __init__ is left before line 29
AfterQueryFailure == "ctor_failed"

\* lines 16-29: the runner is selected, the buffers exist, the total is
\* queried, the thread is started
Construct ==
    /\ pc = "new"
    /\ LET f == remote_command_runner_factory(board_address)
       IN  IF ~f.ok
           THEN /\ pc' = "ctor_failed"
                /\ exc' = f.exc
                /\ UNCHANGED <<cmd_runner, total_mem_gb, calls>>
           ELSE /\ cmd_runner' = f.runner
                /\ \E r \in MemTotalOutcomes :
                      IF r.ok
                      THEN /\ total_mem_gb' = Rat(r.kb, KB_PER_GB)
                           /\ pc' = "run"
                           /\ exc' = exc
                           /\ calls' = [calls EXCEPT !.mem = @ + 1, !.threads = @ + 1]
                      ELSE /\ total_mem_gb' = total_mem_gb
                           /\ pc' = AfterQueryFailure
                           /\ exc' = r.exc
                           /\ calls' = [calls EXCEPT !.mem = @ + 1]
    /\ UNCHANGED <<board_address, device, clock, ticks, curr_stats, curr_ts, usage,
                   previous_stats>>
    /\ UNCHANGED <<bufferVars, lock, readerVars, appended, raw_stats, adb, ssh>>

---------------------------------------------------------------------------
(* poll_loop *)

\* mutant: appendleft
DequeAppendLeft(d, x) ==
    IF HistoryLength = 0 THEN <<>>
    ELSE IF Len(d) >= HistoryLength THEN <<x>> \o SubSeq(d, 1, Len(d) - 1)
    ELSE <<x>> \o d

\* deque(maxlen=history_length).append
DequeAppend(d, x) ==
    IF HistoryLength = 0 THEN <<>>
    ELSE IF Len(d) >= HistoryLength THEN Tail(d) \o <<x>>
    ELSE Append(d, x)

\* mutant: no try/except around run_cmd
FetchFailureUnwrapped(e) == Raised(e, "none")

\* the exception that leaves poll_loop when run_cmd raises e (lines 62-65)
FetchFailure(e) ==
    IF e = "RemoteCommandError" THEN Raised("RuntimeError", e) ELSE Raised(e, "none")

\* mutant: the test of line 70 dropped
AfterParseAlways(prev) == "compute"

\* line 70: if self.previous_stats
AfterParse(prev) == IF prev.filled THEN "compute" ELSE "seed"

\* lines 62-67: what run_cmd followed by parse_stats yields, or the
\* exception that leaves the loop
FetchAndParse(r) ==
    IF ~r.ok THEN [ok |-> FALSE, exc |-> FetchFailure(r.exc), stats |-> NoStats]
    ELSE parse_stats(r.out)

\* every outcome of run_cmd(POLL_CMD) with what lines 62-67 make of it
TickInputs ==
    [dev \in Devices |-> [kind \in {"adb", "ssh"} |->
        {[run |-> r, parsed |-> FetchAndParse(r)] :
            r \in RunCmdOutcomes(kind, POLL_CMD, PollOutputs(dev, kind = "ssh"))}]]

\* mutant: the loop goes on to its sleep after a failure
Retry == "sleep"

\* an exception that leaves poll_loop ends the thread
Propagate == "dead"

\* lines 62-70: run_cmd, parse_stats and time.time(), all local to the thread
Fetch ==
    /\ pc = "run"
    /\ ticks < MaxTicks
    /\ ticks' = ticks + 1
    /\ \E t \in TickInputs[device][cmd_runner.kind] :
          /\ calls' = [calls EXCEPT !.device = t.run.calls]
          /\ raw_stats' = IF t.run.ok THEN Bound(t.run.out) ELSE raw_stats
          /\ IF ~t.parsed.ok
             THEN /\ pc' = Propagate
                  /\ exc' = t.parsed.exc
                  /\ UNCHANGED <<curr_stats, curr_ts>>
             ELSE /\ curr_stats' = t.parsed.stats
                  /\ curr_ts' = clock
                  /\ pc' = AfterParse(previous_stats)
                  /\ exc' = exc
    /\ appended' = [appended EXCEPT !.tick = NoAppends.tick]
    /\ UNCHANGED <<clock, usage, previous_stats, ctorVars, adb, ssh>>
    /\ UNCHANGED <<bufferVars, lock, readerVars>>

US_PER_S == 1000000

\* mutant: line 74 dropped
ClampNone(x) == x

\* line 74: min(max(0.0, npu_usage), 100.0)
Clamp(x) ==
    LET lo == IF RatLess(Zero, x) THEN x ELSE Zero
    IN  IF RatLess(Hundred, lo) THEN Hundred ELSE lo

\* lines 73-74, for time_delta_s # 0
NpuUsage(prev_us, curr_us, time_delta_s) ==
    Clamp(Rat(100 * (curr_us - prev_us), time_delta_s * US_PER_S))

\* lines 71-76
Compute ==
    /\ pc = "compute"
    /\ LET time_delta_s == curr_ts - previous_stats.ts
           c == compute_cpu_usage(previous_stats.cpu, curr_stats.cpu)
           mem_used == RatSub(total_mem_gb, curr_stats.mem)
       IN  IF ~c.ok
           THEN /\ pc' = Propagate /\ exc' = c.exc /\ usage' = usage
           ELSE IF time_delta_s = 0 \/ total_mem_gb = Zero
           THEN /\ pc' = Propagate
                /\ exc' = Raised("ZeroDivisionError", "none")
                /\ usage' = usage
           ELSE /\ pc' = "acquire"
                /\ exc' = exc
                /\ usage' = [cpu |-> c.usage,
                             npu |-> NpuUsage(previous_stats.npu, curr_stats.npu,
                                              time_delta_s),
                             mem_used |-> mem_used,
                             mem_used_percent |->
                                 RatMul(RatDiv(mem_used, total_mem_gb), Hundred)]
    /\ UNCHANGED <<clock, ticks, curr_stats, curr_ts, previous_stats, ctorVars, raw_stats, calls, adb, ssh>>
    /\ UNCHANGED <<bufferVars, lock, readerVars, appended>>

\* line 77: with self.lock
Acquire ==
    /\ pc = "acquire"
    /\ lock = "free"
    /\ lock' = "poller"
    /\ pc' = "append_ts"
    /\ UNCHANGED <<exc, clock, ticks, curr_stats, curr_ts, usage,
                   previous_stats, ctorVars, raw_stats, calls, adb, ssh>>
    /\ UNCHANGED <<bufferVars, readerVars, appended>>

\* line 78
AppendTs ==
    /\ pc = "append_ts"
    /\ cpu_time_points' = DequeAppend(cpu_time_points, curr_ts)
    /\ appended' = [appended EXCEPT !.total = @ + 1, !.tick.times = @ + 1]
    /\ pc' = "append_cpu"
    /\ UNCHANGED <<exc, clock, ticks, curr_stats, curr_ts, usage,
                   previous_stats, ctorVars, raw_stats, calls, adb, ssh>>
    /\ UNCHANGED <<cpu_usage_history, npu_usage_history, mem_used_history, lock, readerVars>>

\* lines 80-82, for one label: only the entry of cpu changes
HistoryAppend(hist, cpu, val) ==
    [l \in (DOMAIN hist) \cup {cpu} |->
        IF l = cpu
        THEN DequeAppend(IF l \in DOMAIN hist THEN hist[l] ELSE <<>>, val)
        ELSE hist[l]]

\* lines 79-82: the loop over cpu_usage.items()
RECURSIVE AppendAll(_, _, _)
AppendAll(hist, cpu_usage, n) ==
    IF n = 0 THEN hist
    ELSE HistoryAppend(AppendAll(hist, cpu_usage, n - 1), cpu_usage[n].k, cpu_usage[n].v)

\* history: one more value for every label of cpu_usage
CountAll(counts, cpu_usage) ==
    [l \in (DOMAIN counts) \cup DictKeys(cpu_usage) |->
        (IF l \in DOMAIN counts THEN counts[l] ELSE 0)
        + (IF l \in DictKeys(cpu_usage) THEN 1 ELSE 0)]

AppendCpu ==
    /\ pc = "append_cpu"
    /\ cpu_usage_history' = AppendAll(cpu_usage_history, usage.cpu, Len(usage.cpu))
    /\ appended' = [appended EXCEPT !.tick.cpu = CountAll(@, usage.cpu)]
    /\ pc' = "append_npu"
    /\ UNCHANGED <<exc, clock, ticks, curr_stats, curr_ts, usage,
                   previous_stats, ctorVars, raw_stats, calls, adb, ssh>>
    /\ UNCHANGED <<cpu_time_points, npu_usage_history, mem_used_history, lock,
                   readerVars>>

\* line 83
AppendNpu ==
    /\ pc = "append_npu"
    /\ npu_usage_history' = DequeAppend(npu_usage_history, usage.npu)
    /\ appended' = [appended EXCEPT !.tick.npu = @ + 1]
    /\ pc' = "append_amount"
    /\ UNCHANGED <<exc, clock, ticks, curr_stats, curr_ts, usage,
                   previous_stats, ctorVars, raw_stats, calls, adb, ssh>>
    /\ UNCHANGED <<cpu_time_points, cpu_usage_history, mem_used_history, lock,
                   readerVars>>

\* line 84
AppendAmount ==
    /\ pc = "append_amount"
    /\ mem_used_history' =
          [mem_used_history EXCEPT !.amount = DequeAppend(@, usage.mem_used)]
    /\ appended' = [appended EXCEPT !.tick.amount = @ + 1]
    /\ pc' = "append_percent"
    /\ UNCHANGED <<exc, clock, ticks, curr_stats, curr_ts, usage,
                   previous_stats, ctorVars, raw_stats, calls, adb, ssh>>
    /\ UNCHANGED <<cpu_time_points, cpu_usage_history, npu_usage_history, lock,
                   readerVars>>

\* mutant: acquire() without release()
LockKept == "poller"

\* the lock once the with block of the poll loop is left
LockAfterWith == "free"

\* line 85 and the end of the with block
AppendPercent ==
    /\ pc = "append_percent"
    /\ mem_used_history' =
          [mem_used_history EXCEPT !.percent = DequeAppend(@, usage.mem_used_percent)]
    /\ appended' = [appended EXCEPT !.tick.percent = @ + 1]
    /\ lock' = LockAfterWith
    /\ pc' = "seed"
    /\ UNCHANGED <<exc, clock, ticks, curr_stats, curr_ts, usage,
                   previous_stats, ctorVars, raw_stats, calls, adb, ssh>>
    /\ UNCHANGED <<cpu_time_points, cpu_usage_history, npu_usage_history,
                   readerVars>>

\* lines 87-89
Seed ==
    /\ pc = "seed"
    /\ previous_stats' = [filled |-> TRUE, cpu |-> curr_stats.cpu,
                          mem |-> curr_stats.mem, npu |-> curr_stats.npu,
                          ts |-> curr_ts]
    /\ pc' = "sleep"
    /\ UNCHANGED <<exc, clock, ticks, curr_stats, curr_ts, usage, ctorVars, raw_stats, calls, adb, ssh>>
    /\ UNCHANGED <<bufferVars, lock, readerVars, appended>>

\* mutant: the loop body runs once
AfterSleepReturn == "returned"

\* line 61: while True
AfterSleep == "run"

\* line 91
Sleep ==
    /\ pc = "sleep"
    /\ \E step \in ClockSteps(device) : clock' = clock + step
    /\ pc' = AfterSleep
    /\ UNCHANGED <<exc, ticks, curr_stats, curr_ts, usage,
                   previous_stats, ctorVars, raw_stats, calls, adb, ssh>>
    /\ UNCHANGED <<bufferVars, lock, readerVars, appended>>

---------------------------------------------------------------------------
(* The accessors, called by a reader thread (the dashboard callback) *)

Accessors == {"get_cpu_history", "get_npu_history", "get_mem_history"}

\* the reader enters an accessor and reaches its with self.lock
CallAccessor ==
    /\ pc \notin {"new", "ctor_failed"}
    /\ rpc = "idle"
    /\ \E a \in Accessors : racc' = a
    /\ rpc' = "wait"
    /\ snap' = NoSnap
    /\ UNCHANGED <<pollerVars, bufferVars, lock, seen, appended, adb, ssh>>

\* lines 96, 102, 106: with self.lock
ReaderAcquire ==
    /\ rpc = "wait"
    /\ lock = "free"
    /\ lock' = "reader"
    /\ rpc' = "copy"
    /\ UNCHANGED <<pollerVars, bufferVars, racc, snap, seen, appended, adb, ssh>>

\* lines 97-99
get_cpu_history ==
    [acc |-> "get_cpu_history",
     times |-> ListCopy(cpu_time_points),
     data |-> [cpu \in DOMAIN cpu_usage_history |-> ListCopy(cpu_usage_history[cpu])]]

\* mutant: the deques themselves are returned
get_npu_history_no_copy ==
    [acc |-> "get_npu_history",
     times |-> ListRef("cpu_time_points", ""),
     data |-> [k \in {"npu"} |-> ListRef("npu_usage_history", "")]]

\* line 103
get_npu_history ==
    [acc |-> "get_npu_history",
     times |-> ListCopy(cpu_time_points),
     data |-> [k \in {"npu"} |-> ListCopy(npu_usage_history)]]

\* lines 107-110
get_mem_history ==
    [acc |-> "get_mem_history",
     times |-> ListCopy(cpu_time_points),
     data |-> [k \in {"amount", "percent"} |-> ListCopy(mem_used_history[k])]]

\* the return statement inside the with block: the result is built, the lock
\* is released, the caller has the result
ReaderReturn ==
    /\ rpc = "copy"
    /\ snap' = CASE racc = "get_cpu_history" -> get_cpu_history
                 [] racc = "get_npu_history" -> get_npu_history
                 [] OTHER -> get_mem_history
    /\ seen' = IF seen.track
               THEN [seen EXCEPT !.called = TRUE, !.times = cpu_time_points,
                                 !.total = appended.total, !.at = pc]
               ELSE seen
    /\ lock' = "free"
    /\ rpc' = "idle"
    /\ racc' = "none"
    /\ UNCHANGED <<pollerVars, bufferVars, appended, adb, ssh>>

---------------------------------------------------------------------------

Next ==
    \/ Construct
    \/ Fetch
    \/ Compute
    \/ Acquire
    \/ AppendTs
    \/ AppendCpu
    \/ AppendNpu
    \/ AppendAmount
    \/ AppendPercent
    \/ Seed
    \/ Sleep
    \/ CallAccessor
    \/ ReaderAcquire
    \/ ReaderReturn

Spec == Init /\ [][Next]_vars

---------------------------------------------------------------------------
(* The poller on every kind of runner, with a steady board and a reader    *)
(* whose successive results are remembered                                 *)

BoardAddresses ==
    {NoAddress,
     Address(ADB_PREFIX \o <<"8">>),
     Address(<<"7", ".", "0", ".", "0", ".", "7">>)}

InitSteady ==
    /\ \E a \in BoardAddresses : Start(a)
    /\ device = "steady"
    /\ seen = [NoneSeen EXCEPT !.track = TRUE]
    /\ NoRunnerCall

SpecSteady == InitSteady /\ [][Next]_vars

\* the threads are scheduled fairly: a thread that can step does, a thread
\* waiting for the lock gets it if it is free again and again, the holder of
\* the lock goes on to release it
Fairness ==
    /\ WF_vars(Construct \/ Fetch \/ Compute \/ AppendTs \/ AppendCpu \/ AppendNpu
                 \/ AppendAmount \/ AppendPercent \/ Seed \/ Sleep)
    /\ SF_vars(Acquire)
    /\ WF_vars(ReaderReturn)

\* the default runner, a steady board, a reader
InitLive == Start(NoAddress) /\ device = "steady" /\ seen = NoneSeen /\ NoRunnerCall

SpecLive == InitLive /\ [][Next]_vars /\ Fairness

---------------------------------------------------------------------------
(* compute_cpu_usage on its own: every pair of counter snapshots *)

\* largest counter value of the snapshots
MaxCounter == 1

CounterVectors == [1..5 -> 0..MaxCounter]

\* the thread is about to run lines 71-76 on two snapshots with labels cpu, cpu0
InitCpu ==
    /\ \E p \in CounterVectors, c \in CounterVectors, c0 \in {CountersA, CountersB} :
          /\ previous_stats = [filled |-> TRUE,
                               cpu |-> <<[k |-> "cpu", v |-> p],
                                         [k |-> "cpu0", v |-> CountersA]>>,
                               mem |-> Zero, npu |-> 0, ts |-> StartTime]
          /\ curr_stats = [cpu |-> <<[k |-> "cpu", v |-> c], [k |-> "cpu0", v |-> c0]>>,
                           mem |-> Zero, npu |-> 0]
    /\ curr_ts = StartTime + 1
    /\ clock = StartTime + 1
    /\ ticks = 2
    /\ pc = "compute"
    /\ total_mem_gb = Rat(4, 1)
    /\ board_address = NoAddress
    /\ device = "any"
    /\ cmd_runner = remote_command_runner_factory(NoAddress).runner
    /\ exc = NoExc
    /\ usage = NoUsage
    /\ cpu_time_points = <<>>
    /\ cpu_usage_history = <<>>
    /\ npu_usage_history = <<>>
    /\ mem_used_history = [amount |-> <<>>, percent |-> <<>>]
    /\ lock = "free"
    /\ rpc = "idle"
    /\ racc = "none"
    /\ snap = NoSnap
    /\ appended = NoAppends
    /\ raw_stats = Unbound
    /\ calls = [NoCalls EXCEPT !.mem = 1, !.threads = 1]
    /\ seen = NoneSeen
    /\ adb = NoCall
    /\ ssh = NoSsh

SpecCpu == InitCpu /\ [][Compute]_vars

---------------------------------------------------------------------------
(* remote_command_runner_factory on its own: every address of a bounded set *)

\* largest number of dot-separated fields of an address
MaxFields == 4

\* the texts between the dots
FieldTexts ==
    {<<"0">>, <<"7">>, <<"0", "1">>, <<"2", "5", "5">>, <<"2", "5", "6">>,
     <<"a">>, <<ArabicThree>>}

RECURSIVE JoinDots(_)
JoinDots(fields) ==
    IF Len(fields) = 1 THEN fields[1]
    ELSE fields[1] \o <<".">> \o JoinDots(Tail(fields))

DottedTexts ==
    UNION {{JoinDots(f) : f \in [1..n -> FieldTexts]} : n \in 3..MaxFields}

DeviceTexts ==
    {pre \o suf : pre \in {ADB_PREFIX, <<"S", "L", "1", "6">>, <<"s", "l", "1", "6", "x">>},
                  suf \in {<<>>, <<"0">>, <<"8", "0">>, <<"8", "a">>, <<"0", ".", "7">>,
                           <<ArabicThree>>}}

\* an address, alone or inside a longer string
AddressTexts ==
    {<<>>} \cup
    {pre \o body \o post : pre \in {<<>>, <<"x">>},
                           body \in DottedTexts \cup DeviceTexts,
                           post \in {<<>>, <<"\n">>}}

AddressInputs == {NoAddress} \cup {Address(t) : t \in AddressTexts}

InitFactory ==
    /\ \E a \in AddressInputs : Start(a)
    /\ device = "any" /\ seen = NoneSeen /\ NoRunnerCall

SpecFactory == InitFactory /\ [][Construct]_vars

---------------------------------------------------------------------------
(* ADBCommandRunner.run_cmd on its own: every command of a bounded set *)

\* longest command, in characters
MaxCmdLen == 4

CmdChars == {"a", " ", "&", "|", ";", Backquote, "$", "(", "<", ">"}

Commands == UNION {[1..n -> CmdChars] : n \in 0..MaxCmdLen}

\* the board prints the words it was given, on one line
RECURSIVE Echo(_)
Echo(argv) ==
    IF argv = <<>> THEN <<"\n">>
    ELSE IF Len(argv) = 1 THEN argv[1] \o <<"\n">>
    ELSE argv[1] \o <<" ">> \o Echo(Tail(argv))

\* what check_output does with one segment: its output, a non-zero exit
\* status (CalledProcessError), a timeout (TimeoutExpired)
SegmentOutcomes(argv) ==
    {[ok |-> TRUE, exc |-> NoExc, out |-> Echo(argv)],
     [ok |-> FALSE, exc |-> Raised("RemoteCommandError", "CalledProcessError"), out |-> <<>>],
     [ok |-> FALSE, exc |-> Raised("RemoteCommandError", "none"), out |-> <<>>]}

\* mutant: the segments are taken from the right
LastPart(parts) == parts[Len(parts)]

\* line 50: for part in parts
FirstPart(parts) == Head(parts)

\* mutant: a failed segment is skipped
SkipFailedSegment == "loop"

\* lines 60-63: raise RemoteCommandError
AfterSegmentFailure == "raised"

InitAdb ==
    /\ Start(NoAddress)
    /\ device = "any" /\ seen = NoneSeen /\ ssh = NoSsh
    /\ \E c \in Commands : adb = [NoCall EXCEPT !.pc = "call", !.cmd = c]

\* lines 44-48
AdbCheck ==
    /\ adb.pc = "call"
    /\ IF HasUnsupportedSyntax(adb.cmd)
       THEN adb' = [adb EXCEPT !.pc = "raised",
                               !.exc = Raised("RemoteCommandError", "none")]
       ELSE adb' = [adb EXCEPT !.pc = "loop",
                               !.parts = [i \in 1..Len(SplitAnd(adb.cmd)) |->
                                              Strip(SplitAnd(adb.cmd)[i])]]
    /\ UNCHANGED <<pollerVars, bufferVars, lock, readerVars, appended, ssh>>

\* lines 50-63: one iteration of the loop
AdbInvoke ==
    /\ adb.pc = "loop"
    /\ adb.parts # <<>>
    /\ \E r \in SegmentOutcomes(ShlexSplit(FirstPart(adb.parts))) :
          adb' = [adb EXCEPT !.invoked = Append(@, ShlexSplit(FirstPart(adb.parts))),
                             !.parts = Tail(@),
                             !.results = IF r.ok THEN Append(@, r.out) ELSE @,
                             !.pc = IF r.ok THEN "loop" ELSE AfterSegmentFailure,
                             !.exc = IF r.ok THEN @ ELSE r.exc]
    /\ UNCHANGED <<pollerVars, bufferVars, lock, readerVars, appended, ssh>>

\* line 65
AdbReturn ==
    /\ adb.pc = "loop"
    /\ adb.parts = <<>>
    /\ adb' = [adb EXCEPT !.pc = "returned", !.ret = JoinLines(adb.results)]
    /\ UNCHANGED <<pollerVars, bufferVars, lock, readerVars, appended, ssh>>

NextAdb == AdbCheck \/ AdbInvoke \/ AdbReturn

SpecAdb == InitAdb /\ [][NextAdb]_vars

---------------------------------------------------------------------------
(* SSHCommandRunner on its own: construction, the master connection, calls *)

\* calls of run_cmd and copy that are followed
MaxSshCalls == 2

\* the RemoteCommandError of lines 134 and 157: cmd is ' '.join(e.cmd), output
\* is e.stdout, which holds stderr too
SshCallError ==
    [type |-> "RemoteCommandError", cause |-> "CalledProcessError",
     cmd |-> "e.cmd", output |-> "e.stdout"]

\* mutant: the constructor waits for the master and checks it
InitConnectionChecked(net) == IF net THEN "up" ELSE "raise"

\* lines 108-116: Popen returns as soon as ssh is started; nothing waits for
\* the process or reads its exit status
InitConnection(net) == "starting"

\* the host may lack the ssh program, the board may be unreachable
InitSsh ==
    /\ Start(Address(<<"7", ".", "0", ".", "0", ".", "7">>))
    /\ device = "any" /\ seen = NoneSeen /\ adb = NoCall
    /\ \E i \in BOOLEAN, n \in BOOLEAN :
          ssh = [NoSsh EXCEPT !.pc = "new", !.installed = i, !.net = n]

\* lines 93-104
SshConstruct ==
    /\ ssh.pc = "new"
    /\ LET m == InitConnection(ssh.net)
       IN  IF ~ssh.installed
           THEN ssh' = [ssh EXCEPT !.pc = "ctor_failed",
                                   !.exc = Raised("FileNotFoundError", "none")]
           ELSE IF m = "raise"
           THEN ssh' = [ssh EXCEPT !.pc = "ctor_failed", !.inits = @ + 1,
                                   !.exc = Raised("RemoteCommandError", "none")]
           ELSE ssh' = [ssh EXCEPT !.pc = "ready", !.inits = @ + 1, !.master = m]
    /\ UNCHANGED <<pollerVars, bufferVars, lock, readerVars, appended, adb>>

\* the board: the started master authenticates or gives up
MasterSettles ==
    /\ ssh.master = "starting"
    /\ ssh' = [ssh EXCEPT !.master = IF ssh.net THEN "up" ELSE "failed"]
    /\ UNCHANGED <<pollerVars, bufferVars, lock, readerVars, appended, adb>>

\* ControlPersist: an unused master leaves after keep_alive seconds; a
\* master also ends when the network goes
MasterExpires ==
    /\ ssh.master = "up"
    /\ ssh' = [ssh EXCEPT !.master = "expired"]
    /\ UNCHANGED <<pollerVars, bufferVars, lock, readerVars, appended, adb>>

\* the board becomes reachable or unreachable
NetChange ==
    /\ ssh.pc = "ready"
    /\ ssh.calls < MaxSshCalls
    /\ ssh' = [ssh EXCEPT !.net = ~@,
                          !.master = IF @ = "up" THEN "expired" ELSE @]
    /\ UNCHANGED <<pollerVars, bufferVars, lock, readerVars, appended, adb>>

\* one ssh or scp with ControlMaster=no and the ControlPath of the runner: it
\* goes through the master if there is one, else it connects by itself; the
\* master is not created by it
SshInvoke(op) ==
    /\ ssh.pc = "ready"
    /\ ssh.calls < MaxSshCalls
    /\ LET via == IF ssh.master = "up" THEN "master" ELSE "direct"
           connected == ssh.master = "up" \/ ssh.net
       IN  \E done \in IF connected THEN BOOLEAN ELSE {FALSE} :
              ssh' = [ssh EXCEPT
                        !.calls = @ + 1,
                        !.since_expiry = IF ssh.master = "expired" THEN @ + 1 ELSE @,
                        !.direct = IF via = "direct" /\ ssh.net THEN @ + 1 ELSE @,
                        !.last = [op |-> op, ok |-> done,
                                  exc |-> IF done THEN NoExc ELSE SshCallError,
                                  reachable |-> connected, via |-> via]]
    /\ UNCHANGED <<pollerVars, bufferVars, lock, readerVars, appended, adb>>

\* lines 118-134
SshRunCmd == SshInvoke("run_cmd")

\* lines 136-157
SshCopy == SshInvoke("copy")

NextSsh ==
    \/ SshConstruct
    \/ MasterSettles
    \/ MasterExpires
    \/ NetChange
    \/ SshRunCmd
    \/ SshCopy

SpecSsh == InitSsh /\ [][NextSsh]_vars

---------------------------------------------------------------------------
(* Properties of the poller and its accessors, checked under Spec *)

AppendPcs == {"append_ts", "append_cpu", "append_npu", "append_amount", "append_percent"}

\* the lengths of the metric buffers, and of all the buffers
MetricLengths ==
    {Len(cpu_usage_history[l]) : l \in DOMAIN cpu_usage_history}
    \cup {Len(npu_usage_history), Len(mem_used_history.amount),
          Len(mem_used_history.percent)}

AllLengths == MetricLengths \cup {Len(cpu_time_points)}

\* C1: whenever the lock is free, and in every result an accessor has
\* returned, every metric buffer (each per-label CPU buffer, the NPU buffer,
\* both memory buffers) is as long as the timestamp buffer.
C1_BuffersMatchTimeAxis ==
    /\ lock = "free" => \A n \in MetricLengths : n = Len(cpu_time_points)
    /\ \A k \in DOMAIN snap.data : Len(snap.data[k].val) = Len(snap.times.val)

\* C2: no buffer is ever longer than N, and once N + k ticks (k >= 1) are
\* complete every buffer holds N samples.
C2_CapacityAndFullAfterNTicks ==
    /\ \A n \in AllLengths : n <= HistoryLength
    /\ (pc \in {"sleep", "run"} /\ ticks >= HistoryLength + 1)
          => \A n \in AllLengths : n = HistoryLength

\* timestamps appended so far when the thread is at pc in its ticks-th iteration
ExpectedAppends ==
    CASE pc \in {"seed", "sleep", "run"} \cup (AppendPcs \ {"append_ts"}) ->
            IF ticks = 0 THEN 0 ELSE ticks - 1
      [] pc \in {"compute", "acquire", "append_ts", "dead"} ->
            IF ticks <= 1 THEN 0 ELSE ticks - 2
      [] OTHER -> 0

OnePerMetric ==
    [times |-> 1, npu |-> 1, amount |-> 1, percent |-> 1,
     cpu |-> [l \in DictKeys(previous_stats.cpu) |-> 1]]

\* C3: the first tick appends nothing and stores its sample and timestamp in
\* previous_stats; every later successful tick appends one timestamp and one
\* value per metric, so t successful ticks have appended t - 1 samples.
C3_FirstTickSeedsLaterTicksAppendOne ==
    /\ appended.total = ExpectedAppends
    /\ (ticks = 1 /\ pc \in {"seed", "sleep", "run"})
          => /\ \A n \in AllLengths : n = 0
             /\ DOMAIN cpu_usage_history = {}
             /\ appended.tick = NoAppends.tick
    /\ (ticks >= 1 /\ pc \in {"sleep", "run"})
          => previous_stats = [filled |-> TRUE, cpu |-> curr_stats.cpu,
                               mem |-> curr_stats.mem, npu |-> curr_stats.npu,
                               ts |-> curr_ts]
    /\ (ticks >= 2 /\ pc = "seed") => appended.tick = OnePerMetric

C3_ThirdTickAppended == pc = "seed" /\ ticks = 3 /\ appended.total = 2

\* C4 as stated: every failure of a tick leaves the loop as a RuntimeError.
C4_EveryFailureIsRuntimeError == pc = "dead" => exc.type = "RuntimeError"

\* C4 as amended: a RemoteCommandError of run_cmd leaves the loop as a
\* RuntimeError raised from it; every other failure of a tick (of parse_stats,
\* of the delta computation, of starting the subprocess) leaves it as raised;
\* either way the tick has appended nothing and has not replaced
\* previous_stats, and the lock is not held.
C4_FailureLeavesLoop ==
    pc = "dead" =>
        /\ exc.type \in {"RuntimeError", "OSError", "AssertionError", "ValueError",
                         "KeyError", "IndexError", "ZeroDivisionError"}
        /\ (exc.type = "RuntimeError") <=> (exc.cause = "RemoteCommandError")
        /\ appended.tick = NoAppends.tick
        /\ appended.total = ExpectedAppends
        /\ ticks = 1 => ~previous_stats.filled
        /\ lock # "poller"

C4_ParseFailureAfterAppends ==
    pc = "dead" /\ exc.type = "AssertionError" /\ appended.total >= 1

\* what lines 87-89 store for a sample and its timestamp
Cached(stats, ts) ==
    [filled |-> TRUE, cpu |-> stats.cpu, mem |-> stats.mem, npu |-> stats.npu, ts |-> ts]

NonBlankCount(text) == Cardinality({i \in DOMAIN text : text[i] # BlankLine})

\* C11: once run_cmd has returned an output with fewer than 7 non-blank lines
\* the thread has left the loop with the AssertionError of parse_stats; no
\* sample was made of that output (curr_stats is still the sample before
\* it), the tick has appended nothing, and previous_stats is still what the
\* tick before stored (or empty, in the first tick).
C11_ShortOutputRejected ==
    (raw_stats.bound /\ NonBlankCount(raw_stats.text) < 7) =>
        /\ pc = "dead"
        /\ exc = Raised("AssertionError", "none")
        /\ appended.tick = NoAppends.tick
        /\ appended.total = ExpectedAppends
        /\ IF ticks = 1
           THEN curr_stats = NoStats /\ previous_stats = EmptyStats
           ELSE previous_stats = Cached(curr_stats, curr_ts)

\* three non-blank lines arrive after a tick has appended
C11_ThreeLinesAfterAppend ==
    /\ raw_stats.bound
    /\ Len(raw_stats.text) = 3 /\ NonBlankCount(raw_stats.text) = 3
    /\ pc = "dead"
    /\ appended.total >= 1

\* C5: the polling thread holds the lock only while it appends; while it is
\* in run_cmd, parse_stats or sleep a waiting accessor call finds the lock free.
C5_LockHeldOnlyWhileAppending ==
    /\ lock = "poller" => pc \in AppendPcs
    /\ (pc \in {"run", "sleep"} /\ rpc = "wait") => lock = "free"

C5_ReaderCopiesDuringSleep == pc = "sleep" /\ rpc = "copy" /\ appended.total >= 1

\* the elements a caller sees through a list object
Elements(obj) ==
    CASE obj.ref = "none" -> obj.val
      [] obj.ref = "cpu_time_points" -> cpu_time_points
      [] obj.ref = "npu_usage_history" -> npu_usage_history
      [] obj.ref = "cpu_usage_history" -> cpu_usage_history[obj.key]
      [] OTHER -> mem_used_history[obj.key]

\* what the reader sees in the result it holds
SnapView ==
    [times |-> Elements(snap.times),
     data |-> [k \in DOMAIN snap.data |-> Elements(snap.data[k])]]

\* C6: a step of an accessor leaves every buffer and previous_stats unchanged,
\* and the result a reader holds does not change while it holds it.
C6_AccessorsReadOnlyCopies ==
    [][ /\ (rpc' # rpc) => UNCHANGED <<bufferVars, previous_stats>>
        /\ (snap' = snap) => (SnapView' = SnapView) ]_vars

C6_TickAfterSnapshot ==
    /\ snap.acc = "get_npu_history"
    /\ Len(snap.times.val) = 1
    /\ Len(cpu_time_points) = 2

InRange(v) == RatLeq(Zero, v) /\ RatLeq(v, Hundred)

\* C9: every NPU usage value in the history is within [0, 100].
C9_NpuWithinRange ==
    \A i \in 1..Len(npu_usage_history) : InRange(npu_usage_history[i])

\* a tick whose raw ratio is negative was appended after one clamped from above
C9_ClampedBothWays ==
    /\ pc = "append_amount"
    /\ (curr_stats.npu - previous_stats.npu) * (curr_ts - previous_stats.ts) < 0
    /\ npu_usage_history = <<Hundred, Zero>>

---------------------------------------------------------------------------
(* Properties of the poller on every runner, checked under SpecSteady *)

\* C13: the output a tick parses was produced by one command executed on the
\* device.
C13_OneInvocationPerTick == (ticks >= 1 /\ pc # "dead") => calls.device = 1

\* construction or a tick has raised
Failed == exc # NoExc

\* C15: once a tick has failed no further tick starts, nothing more is
\* executed on the device, the buffers and previous_stats keep their values,
\* the lock is not held by the dead thread, and an accessor that returns
\* returns the buffer as it is.
C15_NoRetryAfterFailure ==
    [][ Failed =>
          /\ ticks' = ticks
          /\ calls' = calls
          /\ UNCHANGED <<bufferVars, previous_stats, exc>>
          /\ pc' = pc
          /\ lock # "poller"
          /\ (rpc = "copy" /\ rpc' = "idle") => snap'.times.val = cpu_time_points ]_vars

\* a call made after the thread died has returned the history
C15_ReadAfterFailure ==
    /\ pc = "dead"
    /\ seen.at = "dead"
    /\ rpc = "idle"
    /\ Len(seen.times) >= 1
    /\ snap.times.val = cpu_time_points

\* later is earlier with m newer entries appended at the right and the
\* oldest entries dropped as the capacity requires
MovedForward(earlier, later, m) ==
    LET kept == Len(later) - m
    IN  /\ m >= 0
        /\ Len(later) = IF Len(earlier) + m < HistoryLength THEN Len(earlier) + m
                        ELSE HistoryLength
        /\ kept > 0 => SubSeq(later, 1, kept)
                         = SubSeq(earlier, Len(earlier) - kept + 1, Len(earlier))

\* C19: the timestamps an accessor call returns are those of the reader's
\* previous call with the ticks appended in between at the end and the
\* oldest entries dropped.
C19_HistoryMovesForward ==
    [][ (rpc = "copy" /\ rpc' = "idle" /\ seen.called) =>
            MovedForward(seen.times, snap'.times.val, appended.total - seen.total) ]_vars

\* two calls in a row see different ticks: the second is about to return a
\* full history that is not the full history the first returned
C19_NextCallSeesLaterTick ==
    /\ rpc = "copy"
    /\ seen.called
    /\ Len(seen.times) = HistoryLength
    /\ Len(cpu_time_points) = HistoryLength
    /\ seen.times # cpu_time_points

\* C20: MemTotal is queried once, in __init__, and the thread is started
\* only after it; if construction fails no thread is started and no tick
\* runs; after construction total_mem_gb is not written and no query is made.
C20_TotalMemoryQueriedOnce ==
    /\ [](/\ calls.mem <= 1
          /\ pc \notin {"new", "ctor_failed"} => calls.mem = 1 /\ calls.threads = 1
          /\ pc = "ctor_failed" => calls.threads = 0 /\ ticks = 0
          /\ ticks >= 1 => calls.threads = 1)
    /\ [][ pc # "new" =>
             /\ total_mem_gb' = total_mem_gb
             /\ calls'.mem = calls.mem
             /\ pc = "ctor_failed" => pc' = pc /\ ticks' = ticks ]_vars

\* ticks have run on the total that __init__ stored
C20_TicksOnStoredTotal ==
    /\ pc = "sleep"
    /\ ticks >= 2
    /\ calls.mem = 1
    /\ total_mem_gb = Rat(4, 1)

---------------------------------------------------------------------------
(* Liveness of the poll loop, checked under SpecLive *)

\* C17: one thread is started, by __init__, and never another; unless a tick
\* fails the loop goes on from tick to tick until the last tick followed
\* (MaxTicks) has started, by when the timestamp buffer holds N entries, and
\* a full buffer stays full.
C17_OneThreadLoopsForever ==
    /\ [](/\ calls.threads <= 1
          /\ calls.threads = 1 <=> pc \notin {"new", "ctor_failed"})
    /\ (calls.threads = 1) ~>
          (Failed \/ (ticks = MaxTicks /\ Len(cpu_time_points) = HistoryLength))
    /\ [][ Len(cpu_time_points) = HistoryLength =>
              Len(cpu_time_points') = HistoryLength ]_vars

\* the buffer is full and the loop has gone on
C17_FullAndStillPolling ==
    /\ ~Failed
    /\ pc = "sleep"
    /\ ticks = MaxTicks
    /\ Len(cpu_time_points) = HistoryLength

---------------------------------------------------------------------------
(* Properties of remote_command_runner_factory, checked under SpecFactory *)

\* the value of a decimal digit
DigitValue(c) ==
    CASE c = "0" -> 0 [] c = "1" -> 1 [] c = "2" -> 2 [] c = "3" -> 3 [] c = "4" -> 4
      [] c = "5" -> 5 [] c = "6" -> 6 [] c = "7" -> 7 [] c = "8" -> 8 [] c = "9" -> 9

RECURSIVE DecimalValue(_)
DecimalValue(t) ==
    IF t = <<>> THEN 0
    ELSE 10 * DecimalValue(SubSeq(t, 1, Len(t) - 1)) + DigitValue(t[Len(t)])

AsciiDigits(t) == \A i \in 1..Len(t) : t[i] \in Digits

\* the prefix SL16x followed by one or more digits
DeviceIdentifier(s) ==
    \E n \in 1..Len(s) :
        /\ Len(s) = Len(ADB_PREFIX) + n
        /\ \A i \in 1..Len(ADB_PREFIX) : s[i] = ADB_PREFIX[i]
        /\ \A i \in (Len(ADB_PREFIX) + 1)..Len(s) : s[i] \in Digits

\* a decimal number 0..255 written without a leading zero
OctetText(t) ==
    /\ Len(t) \in 1..3
    /\ AsciiDigits(t)
    /\ DecimalValue(t) <= 255
    /\ Len(t) > 1 => t[1] # "0"

\* four octets separated by dots
DottedQuad(s) ==
    \E i, j, k \in 1..Len(s) :
        /\ i < j /\ j < k
        /\ s[i] = "." /\ s[j] = "." /\ s[k] = "."
        /\ OctetText(SubSeq(s, 1, i - 1))
        /\ OctetText(SubSeq(s, i + 1, j - 1))
        /\ OctetText(SubSeq(s, j + 1, k - 1))
        /\ OctetText(SubSeq(s, k + 1, Len(s)))

\* C7: once the factory has run, an absent address has given the adb runner
\* for SL16x0, a device identifier (SL16x and one or more digits) the adb
\* runner for it, a dotted quad of octets 0..255 the ssh runner for it, and
\* every other string a ValueError and no runner
C7_AddressClassifiedByFullMatch ==
    pc # "new" =>
        IF board_address.none
        THEN cmd_runner = [kind |-> "adb", target |-> DEFAULT_DEVICE]
        ELSE IF DeviceIdentifier(board_address.text)
        THEN cmd_runner = [kind |-> "adb", target |-> board_address.text]
        ELSE IF DottedQuad(board_address.text)
        THEN cmd_runner = [kind |-> "ssh", target |-> board_address.text]
        ELSE /\ cmd_runner = NoRunner
             /\ pc = "ctor_failed"
             /\ exc.type = "ValueError"

---------------------------------------------------------------------------
(* Properties of ADBCommandRunner.run_cmd, checked under SpecAdb *)

\* the command holds one of | ; || backquote $( < >
HasMetacharacter(cmd) ==
    \E i \in 1..Len(cmd) :
        \/ cmd[i] \in {"|", ";", Backquote, "<", ">"}
        \/ cmd[i] = "$" /\ i < Len(cmd) /\ cmd[i + 1] = "("

\* C8: a command holding a metacharacter ends in a RemoteCommandError with
\* nothing returned, and none of its segments is ever invoked
C8_RejectedBeforeAnyInvocation ==
    HasMetacharacter(adb.cmd) =>
        /\ adb.invoked = <<>>
        /\ adb.pc \in {"call", "raised"}
        /\ adb.pc = "raised" =>
              /\ adb.exc.type = "RemoteCommandError"
              /\ adb.ret = <<>>
              /\ adb.results = <<>>

\* a rejected command whose first && segment holds no metacharacter
C8_CleanFirstSegmentNotInvoked ==
    /\ adb.cmd = <<"a", "&", "&", "|">>
    /\ adb.pc = "raised"
    /\ adb.invoked = <<>>

\* the words of the i-th && segment of the command
SegmentWords(cmd, i) == ShlexSplit(Strip(SplitAnd(cmd)[i]))

\* C16: the invocations made so far are those of the first segments of the
\* command, in order, each made after the one before it has returned; the
\* value returned is the outputs of all the segments, in segment order,
\* joined by newlines.
C16_SegmentsInOrder ==
    LET n == Len(SplitAnd(adb.cmd))
    IN  /\ Len(adb.invoked) <= n
        /\ \A i \in 1..Len(adb.invoked) : adb.invoked[i] = SegmentWords(adb.cmd, i)
        /\ adb.pc = "loop" => Len(adb.results) = Len(adb.invoked)
        /\ adb.pc = "returned" =>
              /\ Len(adb.invoked) = n
              /\ adb.ret = JoinLines([i \in 1..n |-> Echo(SegmentWords(adb.cmd, i))])

\* two different segments have run and their outputs are returned
C16_TwoSegmentsReturned ==
    /\ adb.pc = "returned"
    /\ adb.cmd = <<"a", "&", "&", "$">>
    /\ adb.ret = <<"a", "\n", "\n", "$", "\n">>

\* C18: when a segment fails run_cmd raises RemoteCommandError at once: the
\* failed segment is the last one invoked, the outputs of the segments
\* before it are not returned.
C18_FailureShortCircuits ==
    (adb.exc # NoExc /\ ~HasMetacharacter(adb.cmd)) =>
        /\ adb.pc = "raised"
        /\ adb.exc.type = "RemoteCommandError"
        /\ Len(adb.invoked) = Len(adb.results) + 1
        /\ Len(adb.invoked) <= Len(SplitAnd(adb.cmd))
        /\ adb.ret = <<>>

\* the second of three segments has failed
C18_SecondOfThreeFailed ==
    /\ adb.pc = "raised"
    /\ Len(SplitAnd(adb.cmd)) = 3
    /\ Len(adb.invoked) = 2
    /\ Len(adb.results) = 1
    /\ adb.ret = <<>>

---------------------------------------------------------------------------
(* Properties of compute_cpu_usage, checked under SpecCpu *)

RECURSIVE SeqSum(_)
SeqSum(v) == IF Len(v) = 0 THEN 0 ELSE v[1] + SeqSum([i \in 1..(Len(v) - 1) |-> v[i + 1]])

CategorySum(label, stats) == SeqSum(DictGet(stats.cpu, label))

totalDelta(label) == CategorySum(label, curr_stats) - CategorySum(label, previous_stats)

idleDelta(label) ==
    LET p == DictGet(previous_stats.cpu, label)
        c == DictGet(curr_stats.cpu, label)
    IN  (c[4] - p[4]) + (c[5] - p[5])

\* C10: for every label of the previous snapshot the usage is 0 when
\* totalDelta <= 0 and 100 * (1 - idleDelta / totalDelta) otherwise, which is
\* within 0..100 whenever 0 <= idleDelta <= totalDelta
C10_CpuUsageFormula ==
    pc = "acquire" =>
        /\ DictKeys(usage.cpu) = DictKeys(previous_stats.cpu)
        /\ \A label \in DictKeys(previous_stats.cpu) :
              LET r == DictGet(usage.cpu, label)
                  total == totalDelta(label)
                  idle == idleDelta(label)
              IN  /\ total <= 0 => r = Zero
                  /\ total > 0 => /\ r.d > 0
                                  /\ r.n * total = 100 * (total - idle) * r.d
                  /\ (total > 0 /\ 0 <= idle /\ idle <= total) => InRange(r)

\* one label at 50 percent, the other with identical snapshots
C10_HalfIdleAndNoChange ==
    /\ pc = "acquire"
    /\ totalDelta("cpu") = 2 /\ idleDelta("cpu") = 1
    /\ DictGet(usage.cpu, "cpu") = Rat(50, 1)
    /\ totalDelta("cpu0") = 0
    /\ DictGet(usage.cpu, "cpu0") = Zero

---------------------------------------------------------------------------
(* Properties of SSHCommandRunner, checked under SpecSsh *)

\* C12: with ssh installed the constructor ends with the runner made, whether
\* or not the board can be reached, and nothing is raised before a call; a
\* call that cannot reach the board raises a RemoteCommandError with the
\* command and the captured output.
C12_ConnectionFailureAtFirstUse ==
    /\ (ssh.installed /\ ssh.pc # "new") => ssh.pc = "ready" /\ ssh.inits = 1
    /\ (ssh.pc = "ready" /\ ssh.calls = 0) => ssh.exc = NoExc /\ ssh.last = NoLast
    /\ ssh.exc = NoExc \/ ~ssh.installed
    /\ ~ssh.last.reachable =>
          /\ ~ssh.last.ok
          /\ ssh.last.exc.type = "RemoteCommandError"
          /\ ssh.last.exc.cmd = "e.cmd"
          /\ ssh.last.exc.output = "e.stdout"

\* the master could not connect, the runner was made, its first call raised
C12_FirstCallReportsFailure ==
    /\ ssh.pc = "ready"
    /\ ssh.master = "failed"
    /\ ssh.calls = 1
    /\ ~ssh.last.reachable
    /\ ssh.last.exc.type = "RemoteCommandError"

\* C14: once a call was made after the master connection had expired, a
\* master connection exists again.
C14_MasterReestablishedAfterExpiry ==
    ssh.since_expiry >= 1 => ssh.master \in {"starting", "up"}

=============================================================================
